---- MODULE Spec2Model ----
(***************************************************************************)
(* Model of the rule-based stress classifier of beddu                      *)
(* (modules/module_stress_detector.py, SimpleStressDetector), of its       *)
(* financial sub-classifier (modules/module_financial.py), of the resource *)
(* selector and formatter (modules/module_resources.py) and of the /chat   *)
(* handler that runs them on every message and builds the reply            *)
(* (web_app.py, modules/module_llm.py).                                    *)
(*                                                                         *)
(* A text is a sequence of one-character strings, so that the substring    *)
(* search (str.find, "in"), the word-boundary regular expression (\b),     *)
(* the 20-character negation window and str.split() are computed the way   *)
(* the Python code computes them.                                          *)
(* Floats are kept as scaled integers: intensity multipliers in tenths     *)
(* (1.3 -> 13) and confidence in hundredths (0.15 -> 15).                  *)
(***************************************************************************)
EXTENDS Integers, Sequences, FiniteSets, TLC

VARIABLES
    message,         \* the argument of the latest detect() call
    result,          \* the dict returned by the latest detect() call
    locals,          \* the locals of the latest detect() call (STEP 4 to STEP 8)
    stress_history,  \* self.stress_history, a deque(maxlen = history_size)
    history_size,    \* the history_size the detector was constructed with
    calls,           \* number of detect() calls made so far
    financial_data,  \* the dict returned by the latest FinancialStressDetector.detect()
    financial_locals,\* the locals of that call (matches, list before deduplication)
    catalog,         \* the resource databases the ResourceManager loaded
    resources,       \* the dict returned by the latest get_resources() call
    session,         \* the conversation session of the latest /chat request
    sent,            \* per session, the messages its /chat requests carried
    display,         \* outcome of the latest format_resources_for_display() call
    reply,           \* the HTTP response to the latest /chat request
    conversation_history  \* memory_manager.conversation_history

\* the state of the SimpleStressDetector and of its latest call
detector_vars == <<message, result, locals, stress_history, history_size, calls>>
\* the state of the objects the LLMManager holds besides the detector
manager_vars ==
    <<financial_data, financial_locals, catalog, resources, session, sent,
      display, reply, conversation_history>>

vars == <<detector_vars, manager_vars>>

----------------------------------------------------------------------------
(* Bounds of the model *)

MaxWords == 4        \* longest text, in words, drawn from a vocabulary
MaxCalls == 5        \* longest sequence of detect() calls of one session
MaxRequests == 4     \* most /chat requests that carry a message
MaxCatalog == 4      \* number of records in each list of a resource database

----------------------------------------------------------------------------
(* Characters and strings *)

Min(a, b) == IF a < b THEN a ELSE b
Max(a, b) == IF a > b THEN a ELSE b

Letters ==
    {"a","b","c","d","e","f","g","h","i","j","k","l","m",
     "n","o","p","q","r","s","t","u","v","w","x","y","z"}

\* the upper-case letters the texts of the model use
UpperLetters == {"B", "H", "I", "J", "L"}

\* str.lower() on the characters of the model's alphabet
Lower(c) ==
    CASE c = "B" -> "b"
      [] c = "H" -> "h"
      [] c = "I" -> "i"
      [] c = "J" -> "j"
      [] c = "L" -> "l"
      [] OTHER -> c
LowerText(text) == [i \in 1..Len(text) |-> Lower(text[i])]

\* \w of the re module: letters (digits and "_" are not in the alphabet)
IsWordChar(c) == c \in Letters \cup UpperLetters

\* pat occurs in text at the 0-based offset i
OccursAt(text, pat, i) ==
    /\ i >= 0
    /\ i + Len(pat) <= Len(text)
    /\ \A j \in 1..Len(pat) : text[i + j] = pat[j]

\* the offsets of the occurrences of pat in text
Offsets(text, pat) == {i \in 0..(Len(text) - Len(pat)) : OccursAt(text, pat, i)}

\* the "in" operator on strings
Contains(text, pat) == \E i \in 0..(Len(text) - Len(pat)) : OccursAt(text, pat, i)

\* str.find: offset of the first occurrence, -1 when there is none
Find(text, pat) ==
    IF ~ Contains(text, pat) THEN -1
    ELSE CHOOSE i \in 0..(Len(text) - Len(pat)) :
            /\ OccursAt(text, pat, i)
            /\ \A k \in 0..(i - 1) : ~ OccursAt(text, pat, k)

\* \b at offset p: exactly one of the characters around p is a word character
WordCharAt(text, p) == p >= 1 /\ p <= Len(text) /\ IsWordChar(text[p])
Boundary(text, p) == WordCharAt(text, p) # WordCharAt(text, p + 1)

\* offsets where r'\b' + re.escape(keyword) + r'\b' matches
WordOffsets(text, keyword) ==
    {i \in 0..(Len(text) - Len(keyword)) :
        /\ OccursAt(text, keyword, i)
        /\ Boundary(text, i)
        /\ Boundary(text, i + Len(keyword))}

\* re.search(r'\b' + re.escape(keyword) + r'\b', text) finds a match
SearchWord(text, keyword) ==
    \E i \in 0..(Len(text) - Len(keyword)) :
        /\ OccursAt(text, keyword, i)
        /\ Boundary(text, i)
        /\ Boundary(text, i + Len(keyword))

\* str.split(): the maximal runs of non-blank characters, as a set
RECURSIVE SplitLoop(_, _, _, _)
SplitLoop(s, i, token, tokens) ==
    IF i > Len(s)
    THEN IF token = <<>> THEN tokens ELSE tokens \cup {token}
    ELSE IF s[i] = " "
         THEN SplitLoop(s, i + 1, <<>>,
                        IF token = <<>> THEN tokens ELSE tokens \cup {token})
         ELSE SplitLoop(s, i + 1, Append(token, s[i]), tokens)

Split(s) == SplitLoop(s, 1, <<>>, {})

\* text[a:b] with 0 <= a <= b <= len(text)
Slice(text, a, b) == SubSeq(text, a + 1, b)

RECURSIVE JoinWords(_)
JoinWords(ws) ==
    IF Len(ws) = 0 THEN <<>>
    ELSE IF Len(ws) = 1 THEN ws[1]
    ELSE ws[1] \o <<" ">> \o JoinWords(Tail(ws))

RECURSIVE SumSeq(_)
SumSeq(s) == IF Len(s) = 0 THEN 0 ELSE s[1] + SumSeq(Tail(s))

RECURSIVE Flatten(_)
Flatten(ss) == IF Len(ss) = 0 THEN <<>> ELSE ss[1] \o Flatten(Tail(ss))

Prefix(s, n) == SubSeq(s, 1, Min(n, Len(s)))

----------------------------------------------------------------------------
(* Lexicon (class attributes of SimpleStressDetector).                     *)
(* The keyword and phrase tables hold, in the order of the source, the     *)
(* entries of the source tables that occur in some text of Texts below;    *)
(* no other entry of the source tables matches any of these texts.         *)

kw_anxious == <<"a","n","x","i","o","u","s">>
kw_depressed == <<"d","e","p","r","e","s","s","e","d">>
kw_sad == <<"s","a","d">>
kw_pain == <<"p","a","i","n">>
kw_debt == <<"d","e","b","t">>
kw_rent == <<"r","e","n","t">>
kw_afford == <<"a","f","f","o","r","d">>
kw_tired == <<"t","i","r","e","d">>
kw_sick == <<"s","i","c","k">>
kw_ill == <<"i","l","l">>
kw_suicide == <<"s","u","i","c","i","d","e">>
kw_kill_myself == <<"k","i","l","l"," ","m","y","s","e","l","f">>
kw_want_to_die == <<"w","a","n","t"," ","t","o"," ","d","i","e">>
ph_cant_afford == <<"c","a","n","t"," ","a","f","f","o","r","d">>

STRESS_KEYWORDS ==
    [mental    |-> <<kw_anxious, kw_depressed, kw_sad, kw_pain>>,
     financial |-> <<kw_debt, kw_rent, kw_afford>>,
     physical  |-> <<kw_tired, kw_pain, kw_sick, kw_ill>>,
     crisis    |-> <<kw_suicide, kw_kill_myself, kw_want_to_die>>]

STRESS_PHRASES ==
    [mental    |-> <<>>,
     financial |-> <<[phrase |-> ph_cant_afford, weight |-> 7]>>,
     crisis    |-> <<[phrase |-> kw_want_to_die, weight |-> 10],
                     [phrase |-> kw_kill_myself, weight |-> 10]>>]

\* multipliers in tenths, in the order of the dict
INTENSITY_MODIFIERS ==
    << [modifier |-> <<"e","x","t","r","e","m","e">>, boost |-> 20],
       [modifier |-> <<"s","e","v","e","r","e">>, boost |-> 18],
       [modifier |-> <<"r","e","a","l","l","y">>, boost |-> 13],
       [modifier |-> <<"v","e","r","y">>, boost |-> 13],
       [modifier |-> <<"e","x","t","r","e","m","e","l","y">>, boost |-> 18],
       [modifier |-> <<"i","n","c","r","e","d","i","b","l","y">>, boost |-> 15],
       [modifier |-> <<"u","n","b","e","a","r","a","b","l","y">>, boost |-> 18],
       [modifier |-> <<"c","o","n","s","t","a","n","t","l","y">>, boost |-> 15],
       [modifier |-> <<"a","l","w","a","y","s">>, boost |-> 14],
       [modifier |-> <<"c","o","m","p","l","e","t","e","l","y">>, boost |-> 15],
       [modifier |-> <<"t","o","t","a","l","l","y">>, boost |-> 14],
       [modifier |-> <<"a","b","s","o","l","u","t","e","l","y">>, boost |-> 15],
       [modifier |-> <<"s","o"," ","m","u","c","h">>, boost |-> 14],
       [modifier |-> <<"t","o","o"," ","m","u","c","h">>, boost |-> 15] >>

NEGATION_WORDS ==
    << <<"n","o","t">>, <<"n","o">>, <<"n","e","v","e","r">>, <<"n","e","i","t","h","e","r">>, <<"n","o","n","e">>, <<"n","o","b","o","d","y">>,
       <<"n","o","t","h","i","n","g">>, <<"n","o","w","h","e","r","e">>, <<"h","a","r","d","l","y">>, <<"b","a","r","e","l","y">>, <<"s","c","a","r","c","e","l","y">> >>

\* number of characters before a match that _is_negated inspects
NegationWindow == 20

\* iteration order of the dicts built by _find_stress_keywords/_find_stress_phrases
KeywordCategories == <<"mental", "financial", "physical">>
PhraseCategories == <<"mental", "financial", "physical", "crisis">>

----------------------------------------------------------------------------
(* SimpleStressDetector: the pure steps of detect()                        *)

\* _find_keywords: the keywords of the list that re.search finds as whole words
_find_keywords(text, keyword_list) ==
    SelectSeq(keyword_list, LAMBDA keyword : SearchWord(text, keyword))

\* _find_stress_keywords: every category but 'crisis'
_find_stress_keywords(text) ==
    [category \in {"mental", "financial", "physical"} |->
        _find_keywords(text, STRESS_KEYWORDS[category])]

\* _find_stress_phrases: plain substring test, 'physical' has no phrase table
_find_stress_phrases(text) ==
    [category \in {"mental", "financial", "physical", "crisis"} |->
        IF category = "physical" THEN <<>>
        ELSE SelectSeq(STRESS_PHRASES[category],
                       LAMBDA p : Contains(text, p.phrase))]

\* _is_negated: a negation word among the blank-separated tokens of the
\* 20 characters before the FIRST occurrence (str.find) of the phrase
_is_negated(text, phrase) ==
    LET phrase_pos == Find(text, phrase)
        before_text == Slice(text, Max(0, phrase_pos - NegationWindow), phrase_pos)
        tokens == Split(before_text)
    IN  IF phrase_pos = -1 THEN FALSE
        ELSE \E n \in 1..Len(NEGATION_WORDS) : NEGATION_WORDS[n] \in tokens

\* _filter_negations; tuples stands for isinstance(item, tuple): the items
\* are (phrase, weight) entries and item[0] is checked, else the item itself
_filter_negations(text, matches, tuples) ==
    [category \in DOMAIN matches |->
        SelectSeq(matches[category],
                  LAMBDA item :
                      ~ _is_negated(text, IF tuples THEN item.phrase ELSE item))]

\* variant of _calculate_base_stress without the base level of 3
_calculate_base_stress_no_floor(keywords, phrases) ==
    LET keyword_count ==
            SumSeq([i \in 1..Len(KeywordCategories) |->
                        Len(keywords[KeywordCategories[i]])])
        weights ==
            SumSeq([i \in 1..Len(PhraseCategories) |->
                        SumSeq([j \in 1..Len(phrases[PhraseCategories[i]]) |->
                                    phrases[PhraseCategories[i]][j].weight])])
        stress == keyword_count * 2 + weights
    IN  Min(10, stress)

\* _calculate_base_stress
_calculate_base_stress(keywords, phrases) ==
    LET keyword_count ==
            SumSeq([i \in 1..Len(KeywordCategories) |->
                        Len(keywords[KeywordCategories[i]])])
        weights ==
            SumSeq([i \in 1..Len(PhraseCategories) |->
                        SumSeq([j \in 1..Len(phrases[PhraseCategories[i]]) |->
                                    phrases[PhraseCategories[i]][j].weight])])
        stress == keyword_count * 2 + weights
    IN  Min(10, IF stress > 0 THEN Max(3, stress) ELSE stress)

\* _calculate_intensity (tenths): the largest boost of a modifier that is a
\* substring of the text, at least 1.0
RECURSIVE IntensityLoop(_, _, _)
IntensityLoop(text, i, multiplier) ==
    IF i > Len(INTENSITY_MODIFIERS) THEN multiplier
    ELSE IntensityLoop(text, i + 1,
            IF Contains(text, INTENSITY_MODIFIERS[i].modifier)
            THEN Max(multiplier, INTENSITY_MODIFIERS[i].boost)
            ELSE multiplier)

\* variant of _calculate_intensity: the modifiers found stack additively
RECURSIVE StackingLoop(_, _, _)
StackingLoop(text, i, multiplier) ==
    IF i > Len(INTENSITY_MODIFIERS) THEN multiplier
    ELSE StackingLoop(text, i + 1,
            IF Contains(text, INTENSITY_MODIFIERS[i].modifier)
            THEN multiplier + (INTENSITY_MODIFIERS[i].boost - 10)
            ELSE multiplier)

_calculate_intensity_stacking(text) == StackingLoop(text, 1, 10)

_calculate_intensity(text) == IntensityLoop(text, 1, 10)

\* _check_combination_patterns
_check_combination_patterns(keywords, phrases) ==
    LET active_categories ==
            Cardinality({c \in DOMAIN keywords : Len(keywords[c]) > 0})
          + Cardinality({c \in DOMAIN phrases : Len(phrases[c]) > 0})
        category_boost ==
            IF active_categories >= 3 THEN 2
            ELSE IF active_categories = 2 THEN 1 ELSE 0
        same_category_boost ==
            Cardinality({c \in DOMAIN keywords : Len(keywords[c]) >= 4})
    IN  category_boost + same_category_boost

\* the scores dict of _determine_category_advanced
CategoryScores(keywords, phrases) ==
    [cat \in {"mental", "financial", "physical"} |->
        Len(keywords[cat]) + Len(phrases[cat]) * 3]

\* variant of FirstMax: the last key, in dict order, with the largest score
LastMax(scores) ==
    LET best == CHOOSE i \in 1..Len(KeywordCategories) :
                  /\ \A j \in 1..Len(KeywordCategories) :
                        scores[KeywordCategories[j]] <= scores[KeywordCategories[i]]
                  /\ \A j \in (i + 1)..Len(KeywordCategories) :
                        scores[KeywordCategories[j]] < scores[KeywordCategories[i]]
    IN  KeywordCategories[best]

\* max(scores, key=scores.get): the first key, in dict order, with the
\* largest score
FirstMax(scores) ==
    LET best == CHOOSE i \in 1..Len(KeywordCategories) :
                  /\ \A j \in 1..Len(KeywordCategories) :
                        scores[KeywordCategories[j]] <= scores[KeywordCategories[i]]
                  /\ \A j \in 1..(i - 1) :
                        scores[KeywordCategories[j]] < scores[KeywordCategories[i]]
    IN  KeywordCategories[best]

\* _determine_category_advanced
_determine_category_advanced(keywords, phrases) ==
    LET scores == CategoryScores(keywords, phrases)
        max_cat == FirstMax(scores)
    IN  IF scores["mental"] >= 2 /\ scores["financial"] >= 2 THEN "both"
        ELSE IF scores[max_cat] > 0 THEN max_cat ELSE "mental"

\* variant of _analyze_trend: the 1-point tolerance is missing
_analyze_trend_no_tolerance(history) ==
    IF Len(history) < 3 THEN "unknown"
    ELSE LET recent == SubSeq(history, Len(history) - 2, Len(history))
             levels == [i \in 1..3 |-> recent[i].stress_level]
         IN  IF levels[3] < levels[1] THEN "improving"
             ELSE IF levels[3] > levels[1] THEN "worsening"
             ELSE "stable"

\* _analyze_trend, on the history as it is when detect() calls it
_analyze_trend(history) ==
    IF Len(history) < 3 THEN "unknown"
    ELSE LET recent == SubSeq(history, Len(history) - 2, Len(history))
             levels == [i \in 1..3 |-> recent[i].stress_level]
         IN  IF levels[3] < levels[1] - 1 THEN "improving"
             ELSE IF levels[3] > levels[1] + 1 THEN "worsening"
             ELSE "stable"

\* _no_stress_result ('category': None is written "None")
_no_stress_result ==
    [stress_detected |-> FALSE, stress_level |-> 0, is_crisis |-> FALSE,
     category |-> "None", keywords_found |-> <<>>, phrases_found |-> <<>>,
     confidence |-> 0, intensity_multiplier |-> 10, trend |-> "stable"]

\* variant of CrisisResult: confidence computed from the evidence count, as
\* for a scored result, instead of the fixed 1.0
CrisisResult_counted_confidence(keywords_found, phrases_found) ==
    [stress_detected |-> TRUE, stress_level |-> 10, is_crisis |-> TRUE,
     category |-> "crisis", keywords_found |-> keywords_found,
     phrases_found |-> phrases_found,
     confidence |-> Min(100, (Len(keywords_found) + Len(phrases_found) * 2) * 15),
     intensity_multiplier |-> 10, trend |-> "unknown"]

\* the dict both branches of _check_crisis_patterns return on a match
CrisisResult(keywords_found, phrases_found) ==
    [stress_detected |-> TRUE, stress_level |-> 10, is_crisis |-> TRUE,
     category |-> "crisis", keywords_found |-> keywords_found,
     phrases_found |-> phrases_found,
     confidence |-> 100, intensity_multiplier |-> 10, trend |-> "unknown"]

\* _check_crisis_patterns: phrases first, then keywords
_check_crisis_patterns(text) ==
    LET hits == SelectSeq(STRESS_PHRASES["crisis"],
                    LAMBDA p : Contains(text, p.phrase)
                               /\ ~ _is_negated(text, p.phrase))
        crisis_keywords == _find_keywords(text, STRESS_KEYWORDS["crisis"])
        filtered == SelectSeq(crisis_keywords,
                        LAMBDA kw : ~ _is_negated(text, kw))
    IN  IF hits # <<>> THEN CrisisResult(<<>>, <<hits[1].phrase>>)
        ELSE IF filtered # <<>> THEN CrisisResult(filtered, <<>>)
        ELSE [is_crisis |-> FALSE]

\* STEP 2 to STEP 4 of detect(): the surviving keyword and phrase matches
FilteredKeywords(message_lower) ==
    _filter_negations(message_lower, _find_stress_keywords(message_lower), FALSE)
FilteredPhrases(message_lower) ==
    _filter_negations(message_lower, _find_stress_phrases(message_lower), TRUE)

\* STEP 6 and STEP 8 of detect(): adjusted_stress and final_stress
AdjustedStress(base_stress, intensity) == Min(10, (base_stress * intensity) \div 10)
\* variant of FinalStress: the second min(10, ...) is missing
FinalStress_unclamped(base_stress, intensity, combination_boost) ==
    AdjustedStress(base_stress, intensity) + combination_boost

\* variant of FinalStress: the boost is added before the multiplication
FinalStress_boost_scaled(base_stress, intensity, combination_boost) ==
    Min(10, ((base_stress + combination_boost) * intensity) \div 10)

FinalStress(base_stress, intensity, combination_boost) ==
    Min(10, AdjustedStress(base_stress, intensity) + combination_boost)

\* the locals of a detect() call that returned before STEP 2
NoLocals ==
    [filtered_keywords |-> [c \in {"mental", "financial", "physical"} |-> <<>>],
     filtered_phrases |-> [c \in {"mental", "financial", "physical", "crisis"} |-> <<>>],
     base_stress |-> 0, intensity |-> 10, combination_boost |-> 0]

\* STEP 6 to STEP 9 of detect(): the dict built for a scored message
ScoredResult(filtered_keywords, filtered_phrases, base_stress, intensity, combination_boost, history) ==
    LET all_keywords ==
            Flatten([i \in 1..Len(KeywordCategories) |->
                        filtered_keywords[KeywordCategories[i]]])
        all_phrases ==
            Flatten([i \in 1..Len(PhraseCategories) |->
                        [j \in 1..Len(filtered_phrases[PhraseCategories[i]]) |->
                            filtered_phrases[PhraseCategories[i]][j].phrase]])
    IN  [stress_detected |-> TRUE,
         stress_level |-> FinalStress(base_stress, intensity, combination_boost),
         is_crisis |-> FALSE,
         category |-> _determine_category_advanced(filtered_keywords, filtered_phrases),
         keywords_found |-> Prefix(all_keywords, 10),
         phrases_found |-> Prefix(all_phrases, 5),
         confidence |-> Min(100, (Len(all_keywords) + Len(all_phrases) * 2) * 15),
         intensity_multiplier |-> intensity,
         trend |-> _analyze_trend(history)]

\* detect() from STEP 2 on, for a message that is not a crisis
DetectScored(message_lower, history) ==
    LET filtered_keywords == FilteredKeywords(message_lower)
        filtered_phrases == FilteredPhrases(message_lower)
        base_stress == _calculate_base_stress(filtered_keywords, filtered_phrases)
        intensity == _calculate_intensity(message_lower)
        combination_boost ==
            _check_combination_patterns(filtered_keywords, filtered_phrases)
    IN  IF base_stress = 0
        THEN [result |-> _no_stress_result, update |-> TRUE,
              locals |-> [NoLocals EXCEPT !.filtered_keywords = filtered_keywords,
                                          !.filtered_phrases = filtered_phrases]]
        ELSE [result |-> ScoredResult(filtered_keywords, filtered_phrases,
                                      base_stress, intensity, combination_boost,
                                      history),
              update |-> TRUE,
              locals |-> [filtered_keywords |-> filtered_keywords,
                          filtered_phrases |-> filtered_phrases,
                          base_stress |-> base_stress,
                          intensity |-> intensity,
                          combination_boost |-> combination_boost]]

\* detect(): the returned dict, whether _update_history is called with it,
\* and the values of the locals the call computed
detect(msg, history) ==
    LET message_lower == LowerText(msg)
        crisis_result == _check_crisis_patterns(message_lower)
    IN  IF Len(msg) = 0
        THEN [result |-> _no_stress_result, update |-> FALSE, locals |-> NoLocals]
        ELSE IF crisis_result.is_crisis
             THEN [result |-> crisis_result, update |-> TRUE, locals |-> NoLocals]
        ELSE DetectScored(message_lower, history)

\* variant of _update_history: a full deque drops its newest entry to make
\* room, not its oldest
_update_history_evict_newest(history, entry, maxlen) ==
    IF Len(history) >= maxlen
    THEN SubSeq(history, 1, Len(history) - 1) \o <<entry>>
    ELSE Append(history, entry)

\* _update_history: append to a deque(maxlen), dropping the oldest when full
_update_history(history, entry, maxlen) ==
    IF Len(history) >= maxlen
    THEN Tail(history) \o <<entry>>
    ELSE Append(history, entry)

----------------------------------------------------------------------------
(* The financial sub-classifier (FinancialStressDetector).  The keyword    *)
(* tables hold the entries of the source that occur in the texts below, in *)
(* the order of the source.                                                *)

\* the lexicon entries, named by their text
fk ==
    [bankruptcy |-> <<"b","a","n","k","r","u","p","t","c","y">>,
     eviction |-> <<"e","v","i","c","t","i","o","n">>,
     defaulting |-> <<"d","e","f","a","u","l","t","i","n","g">>,
     losing_home |-> <<"l","o","s","i","n","g"," ","h","o","m","e">>,
     drowning_in_debt |-> <<"d","r","o","w","n","i","n","g"," ","i","n"," ","d","e","b","t">>,
     emi |-> <<"e","m","i">>,
     fired |-> <<"f","i","r","e","d">>,
     utility_shutoff |-> <<"u","t","i","l","i","t","y"," ","s","h","u","t","o","f","f">>,
     past_due |-> <<"p","a","s","t"," ","d","u","e">>,
     rent_due |-> <<"r","e","n","t"," ","d","u","e">>,
     filing_bankruptcy |-> <<"f","i","l","i","n","g"," ","b","a","n","k","r","u","p","t","c","y">>,
     eviction_notice |-> <<"e","v","i","c","t","i","o","n"," ","n","o","t","i","c","e">>,
     homeless |-> <<"h","o","m","e","l","e","s","s">>]

DEBT_KEYWORDS ==
    <<[keyword |-> fk.bankruptcy, severity |-> 10],
      [keyword |-> fk.eviction, severity |-> 10],
      [keyword |-> fk.defaulting, severity |-> 9],
      [keyword |-> fk.losing_home, severity |-> 9],
      [keyword |-> fk.drowning_in_debt, severity |-> 9],
      [keyword |-> fk.emi, severity |-> 5]>>

INCOME_KEYWORDS ==
    <<[keyword |-> fk.fired, severity |-> 8]>>

BILLS_KEYWORDS ==
    <<[keyword |-> fk.utility_shutoff, severity |-> 9],
      [keyword |-> fk.past_due, severity |-> 7],
      [keyword |-> fk.rent_due, severity |-> 7]>>

BANKRUPTCY_INDICATORS ==
    <<[keyword |-> fk.bankruptcy, severity |-> 10],
      [keyword |-> fk.filing_bankruptcy, severity |-> 10]>>

HOUSING_CRISIS ==
    <<[keyword |-> fk.eviction, severity |-> 10],
      [keyword |-> fk.eviction_notice, severity |-> 10],
      [keyword |-> fk.losing_home, severity |-> 10],
      [keyword |-> fk.homeless, severity |-> 10]>>

URGENCY_WORDS ==
    <<<<"t","o","d","a","y">>,
      <<"t","o","m","o","r","r","o","w">>,
      <<"t","h","i","s"," ","w","e","e","k">>,
      <<"i","m","m","e","d","i","a","t","e">>,
      <<"u","r","g","e","n","t">>,
      <<"a","s","a","p">>,
      <<"e","m","e","r","g","e","n","c","y">>>>

DESPERATION_WORDS ==
    <<<<"d","e","s","p","e","r","a","t","e">>,
      <<"h","o","p","e","l","e","s","s">>,
      <<"h","e","l","p","l","e","s","s">>,
      <<"d","o","n","t"," ","k","n","o","w"," ","w","h","a","t"," ","t","o"," ","d","o">>,
      <<"n","o","w","h","e","r","e"," ","t","o"," ","t","u","r","n">>,
      <<"l","a","s","t"," ","r","e","s","o","r","t">>>>

\* the two literal lists of _assess_urgency
NearTermPhrases ==
    {<<"t","h","i","s"," ","m","o","n","t","h">>,
     <<"n","e","x","t"," ","w","e","e","k">>,
     <<"f","e","w"," ","d","a","y","s">>}

SoonPhrases ==
    {<<"s","o","o","n">>,
     <<"c","o","m","i","n","g"," ","u","p">>,
     <<"n","e","x","t"," ","m","o","n","t","h">>}

\* the substrings _recommend_resources looks for in str(issue)
issue_words ==
    [utility |-> <<"u","t","i","l","i","t","y">>,
     food |-> <<"f","o","o","d">>]

\* {**a, **b}: a key of b that a already has keeps its place and takes b's
\* value, a new key is added at the end
RECURSIVE DictMerge(_, _)
DictMerge(a, b) ==
    IF b = <<>> THEN a
    ELSE LET item == Head(b)
             known == \E i \in 1..Len(a) : a[i].keyword = item.keyword
             merged == IF known
                       THEN [i \in 1..Len(a) |->
                               IF a[i].keyword = item.keyword THEN item ELSE a[i]]
                       ELSE Append(a, item)
         IN  DictMerge(merged, Tail(b))

\* FinancialStressDetector.__init__: self.all_keywords
all_keywords ==
    DictMerge(DictMerge(DictMerge(DictMerge(DEBT_KEYWORDS, INCOME_KEYWORDS),
                                  BILLS_KEYWORDS),
                        BANKRUPTCY_INDICATORS),
              HOUSING_CRISIS)

\* keyword in TABLE, for a dict
InTable(keyword, table) == \E i \in 1..Len(table) : table[i].keyword = keyword

_categorize_keyword(keyword) ==
    IF InTable(keyword, DEBT_KEYWORDS) THEN "debt"
    ELSE IF InTable(keyword, INCOME_KEYWORDS) THEN "income_loss"
    ELSE IF InTable(keyword, BILLS_KEYWORDS) THEN "bills"
    ELSE IF InTable(keyword, BANKRUPTCY_INDICATORS) THEN "bankruptcy"
    ELSE IF InTable(keyword, HOUSING_CRISIS) THEN "housing_crisis"
    ELSE "general_financial"

_assess_urgency(text) ==
    IF \E i \in 1..Len(URGENCY_WORDS) : Contains(text, URGENCY_WORDS[i])
    THEN "immediate"
    ELSE IF \E phrase \in NearTermPhrases : Contains(text, phrase) THEN "urgent"
    ELSE IF \E phrase \in SoonPhrases : Contains(text, phrase) THEN "soon"
    ELSE "none"

_assess_desperation(text) ==
    LET desperation_count ==
            Cardinality({i \in 1..Len(DESPERATION_WORDS) :
                            Contains(text, DESPERATION_WORDS[i])})
    IN  IF desperation_count >= 2 THEN "high"
        ELSE IF desperation_count = 1 THEN "moderate"
        ELSE "low"

_severity_label(level) ==
    IF level >= 9 THEN "critical"
    ELSE IF level >= 7 THEN "severe"
    ELSE IF level >= 5 THEN "high"
    ELSE IF level >= 3 THEN "moderate"
    ELSE IF level > 0 THEN "low"
    ELSE "none"

\* variant of RemoveDuplicates: the last occurrence of a key is the one kept
RemoveDuplicates_keep_last(resource_list) ==
    LET kept == {i \in 1..Len(resource_list) :
                    \A j \in (i + 1)..Len(resource_list) : resource_list[j] # resource_list[i]}
        F[i \in 0..Len(resource_list)] ==
            IF i = 0 THEN <<>>
            ELSE IF i \in kept THEN Append(F[i - 1], resource_list[i]) ELSE F[i - 1]
    IN  F[Len(resource_list)]

\* [r for r in resource_list if not (r in seen or seen.add(r))]
RemoveDuplicates(resource_list) ==
    LET F[i \in 0..Len(resource_list)] ==
            IF i = 0 THEN [seen |-> {}, out |-> <<>>]
            ELSE IF resource_list[i] \in F[i - 1].seen THEN F[i - 1]
            ELSE [seen |-> F[i - 1].seen \cup {resource_list[i]},
                  out |-> Append(F[i - 1].out, resource_list[i])]
    IN  F[Len(resource_list)].out

\* _recommend_resources up to the deduplication: the list as appended to.
\* str(issue) holds the keyword, the severity and the category of the issue,
\* and no category name and no number contains 'utility' or 'food'
RecommendedList(categories, severity, issues) ==
    LET critical == IF severity >= 9 THEN <<"emergency_assistance">> ELSE <<>>
        housing == IF "housing_crisis" \in categories
                   THEN <<"emergency_assistance", "housing_assistance">> ELSE <<>>
        bankruptcy == IF "bankruptcy" \in categories
                      THEN <<"bankruptcy_resources">> ELSE <<>>
        debt == IF "debt" \in categories
                THEN IF severity >= 7
                     THEN <<"credit_counseling", "debt_management">>
                     ELSE <<"credit_counseling">>
                ELSE <<>>
        income == IF "income_loss" \in categories
                  THEN <<"employment_resources", "emergency_assistance">> ELSE <<>>
        basic_needs ==
            \E i \in 1..Len(issues) :
                \/ Contains(issues[i].keyword, issue_words.utility)
                \/ Contains(issues[i].keyword, issue_words.food)
        bills == IF "bills" \in categories
                 THEN (IF basic_needs
                       THEN <<"utility_assistance", "food_assistance">> ELSE <<>>)
                      \o <<"emergency_assistance">>
                 ELSE <<>>
        education == IF severity < 7 THEN <<"financial_education">> ELSE <<>>
    IN  critical \o housing \o bankruptcy \o debt \o income \o bills \o education

_recommend_resources(categories, severity, issues) ==
    RemoveDuplicates(RecommendedList(categories, severity, issues))

\* _empty_result
_empty_result ==
    [has_financial_stress |-> FALSE, stress_level |-> 0, categories |-> {},
     severity |-> "none", urgency |-> "none", specific_issues |-> <<>>,
     recommended_resources |-> <<>>, desperation_level |-> "low"]

\* the locals of a financial detect() call that returned _empty_result
NoFinancialLocals == [resources |-> <<>>]

\* the loop of detect(): one issue per entry of all_keywords that is a
\* substring of the text, in the order of all_keywords
DetectedIssues(text_lower) ==
    LET hits == SelectSeq(all_keywords, LAMBDA e : Contains(text_lower, e.keyword))
    IN  [i \in 1..Len(hits) |->
            [keyword |-> hits[i].keyword, severity |-> hits[i].severity,
             category |-> _categorize_keyword(hits[i].keyword)]]

\* variant of ContextSeverity: any desperation word adds the +1
ContextSeverity_any_desperation(max_severity, urgency, desperation_level) ==
    LET urgent == IF urgency = "immediate"
                  THEN Min(10, max_severity + 2) ELSE max_severity
    IN  IF desperation_level # "low" THEN Min(10, urgent + 1) ELSE urgent

\* "Adjust severity based on context"
ContextSeverity(max_severity, urgency, desperation_level) ==
    LET urgent == IF urgency = "immediate"
                  THEN Min(10, max_severity + 2) ELSE max_severity
    IN  IF desperation_level = "high" THEN Min(10, urgent + 1) ELSE urgent

\* FinancialStressDetector.detect: the returned dict (categories as the set
\* it is built as; list(categories) has no defined order) and the list
\* _recommend_resources held before it removed the duplicates
financial_detect(text) ==
    LET text_lower == LowerText(text)
        detected_issues == DetectedIssues(text_lower)
        running[i \in 0..Len(detected_issues)] ==
            IF i = 0 THEN 0 ELSE Max(running[i - 1], detected_issues[i].severity)
        raw_severity == running[Len(detected_issues)]
        categories == {detected_issues[i].category : i \in 1..Len(detected_issues)}
        urgency == _assess_urgency(text_lower)
        desperation_level == _assess_desperation(text_lower)
        max_severity == ContextSeverity(raw_severity, urgency, desperation_level)
    IN  IF Len(text) = 0
        THEN [result |-> _empty_result, locals |-> NoFinancialLocals]
        ELSE [result |->
                [has_financial_stress |-> Len(detected_issues) > 0,
                 stress_level |-> max_severity,
                 categories |-> categories,
                 severity |-> _severity_label(max_severity),
                 urgency |-> urgency,
                 specific_issues |-> detected_issues,
                 recommended_resources |->
                     _recommend_resources(categories, max_severity, detected_issues),
                 desperation_level |-> desperation_level],
              locals |->
                [resources |->
                     RecommendedList(categories, max_severity, detected_issues)]]

\* no financial detect() call has returned yet
NoFinancialData == [_empty_result EXCEPT !.severity = "NoCall", !.urgency = "NoCall"]

----------------------------------------------------------------------------
(* The resource selector (ResourceManager) *)

\* the lists get_resources reads from the four resource databases
CatalogKeys ==
    {"crisis_hotlines", "crisis_online_resources",
     "emergency_assistance", "credit_counseling", "debt_management",
     "housing_assistance", "employment_resources", "financial_education",
     "affordable_therapy", "support_groups", "helplines",
     "breathing_techniques", "grounding_techniques", "physical_techniques",
     "cognitive_techniques", "sleep_techniques", "quick_techniques"}

\* the keys a resource record may hold besides 'name'
OptionalKeys == {"contact", "cost", "website", "instructions"}

\* _load_json on databases whose lists have n records each, every record
\* with its name and the given optional keys; n = 0 is what .get(key, [])
\* gives when the files are missing or malformed
Catalog(n, keys) ==
    [key \in CatalogKeys |->
        [i \in 1..n |-> [list |-> key, index |-> i, keys |-> keys]]]

\* the databases as loaded at start-up, every record complete
LoadedCatalog == Catalog(MaxCatalog, OptionalKeys)

\* no get_resources() call has returned yet
NoResources == [key \in {"NoCall"} |-> <<>>]

\* the literal words get_resources and _get_relevant_coping_strategies look
\* for in keywords_found
rw ==
    [depress |-> <<"d","e","p","r","e","s","s">>,
     lonely |-> <<"l","o","n","e","l","y">>,
     panic |-> <<"p","a","n","i","c">>,
     overwhelm |-> <<"o","v","e","r","w","h","e","l","m">>,
     hopeless |-> <<"h","o","p","e","l","e","s","s">>,
     sleep |-> <<"s","l","e","e","p">>,
     exhaust |-> <<"e","x","h","a","u","s","t">>]

\* word in keywords, for a list
InList(word, keywords) == \E i \in 1..Len(keywords) : keywords[i] = word

\* _get_relevant_coping_strategies
_get_relevant_coping_strategies(stress_data, cat) ==
    LET keywords == stress_data.keywords_found
        selected ==
            IF \E word \in {kw_anxious, rw.panic, rw.overwhelm} : InList(word, keywords)
            THEN Prefix(cat["breathing_techniques"], 1)
                     \o Prefix(cat["grounding_techniques"], 1)
            ELSE IF \E word \in {rw.depress, kw_sad, rw.hopeless} : InList(word, keywords)
            THEN Prefix(cat["physical_techniques"], 1)
                     \o Prefix(cat["cognitive_techniques"], 1)
            ELSE IF \E word \in {rw.sleep, kw_tired, rw.exhaust} : InList(word, keywords)
            THEN Prefix(cat["sleep_techniques"], 2)
            ELSE Prefix(cat["quick_techniques"], 2)
        defaulted == IF selected = <<>>
                     THEN Prefix(cat["breathing_techniques"], 2) ELSE selected
    IN  Prefix(defaulted, 2)

\* the dict get_resources returns for a crisis
CrisisResources(cat) ==
    [key \in {"crisis", "crisis_online", "message"} |->
        CASE key = "crisis" -> Prefix(cat["crisis_hotlines"], 3)
          [] key = "crisis_online" -> Prefix(cat["crisis_online_resources"], 2)
          [] key = "message" -> "IMMEDIATE HELP"]

\* "Financial stress gets specialized resources": result['financial_help']
FinancialHelp(fin_data, cat) ==
    LET urgency == fin_data.urgency
        categories == fin_data.categories
        emergency == IF urgency \in {"immediate", "urgent"}
                     THEN Prefix(cat["emergency_assistance"], 2) ELSE <<>>
        debt == IF "debt" \in categories
                THEN Prefix(cat["credit_counseling"], 1)
                         \o Prefix(cat["debt_management"], 1)
                ELSE <<>>
        housing == IF "housing" \in categories
                   THEN Prefix(cat["housing_assistance"], 2) ELSE <<>>
        income == IF "income" \in categories \/ "job_loss" \in categories
                  THEN Prefix(cat["employment_resources"], 2) ELSE <<>>
        financial_help == emergency \o debt \o housing \o income
        general == IF financial_help = <<>>
                   THEN Prefix(cat["emergency_assistance"], 2)
                            \o Prefix(cat["financial_education"], 1)
                   ELSE financial_help
    IN  Prefix(general, 4)

\* "Mental health resources for non-financial stress": result['mental_health']
MentalHelp(stress_data, cat) ==
    LET keywords == stress_data.keywords_found
        therapy == IF stress_data.stress_level >= 6
                   THEN Prefix(cat["affordable_therapy"], 2) ELSE <<>>
        groups == IF \E word \in {rw.depress, kw_anxious, rw.lonely} : InList(word, keywords)
                  THEN Prefix(cat["support_groups"], 2) ELSE <<>>
        mental_help == therapy \o groups
        general == IF mental_help = <<>>
                   THEN Prefix(cat["helplines"], 2) ELSE mental_help
    IN  Prefix(general, 3)

\* the keys of the dict get_resources builds for a result that is no crisis
SelectedKeys(stress_data, fin_data) ==
    (IF fin_data.has_financial_stress THEN {"financial_help"}
     ELSE IF stress_data.category \in {"mental", "both"} THEN {"mental_health"}
     ELSE {})
    \cup (IF stress_data.stress_level >= 4 THEN {"coping_strategies"} ELSE {})
    \cup (IF stress_data.stress_level >= 7 THEN {"message"} ELSE {})

\* the dict get_resources builds for a result that is no crisis
SelectedResources(stress_data, fin_data, cat) ==
    [key \in SelectedKeys(stress_data, fin_data) |->
        CASE key = "financial_help" -> FinancialHelp(fin_data, cat)
          [] key = "mental_health" -> MentalHelp(stress_data, cat)
          [] key = "coping_strategies" ->
                 _get_relevant_coping_strategies(stress_data, cat)
          [] key = "message" -> "Your stress level seems high"]

\* variant of get_resources: for a crisis the crisis entries are put in
\* front of the selection instead of replacing it
get_resources_crisis_added(stress_data, fin_data, cat) ==
    IF ~ stress_data.stress_detected THEN <<>>
    ELSE IF stress_data.is_crisis
    THEN CrisisResources(cat) @@ SelectedResources(stress_data, fin_data, cat)
    ELSE SelectedResources(stress_data, fin_data, cat)

\* get_resources: the returned dict, a function on the keys it holds ({} is
\* the function on no key).  A financial_data of None selects what a
\* result with has_financial_stress = False selects.
get_resources(stress_data, fin_data, cat) ==
    IF ~ stress_data.stress_detected THEN <<>>
    ELSE IF stress_data.is_crisis THEN CrisisResources(cat)
    ELSE SelectedResources(stress_data, fin_data, cat)

\* no record: the record of an output line that renders none
NoRecord == [list |-> "None", index |-> 0, keys |-> {}]

\* one element of the output list of format_resources_for_display: the
\* section it belongs to, what it is (a header, an item, a marker), the
\* zero-based index it carries, the record it renders and the pieces of
\* the record (or the message) it shows, in order
Line(section, kind, index, record, shown) ==
    [section |-> section, kind |-> kind, index |-> index,
     record |-> record, shown |-> shown]

\* variant of CopingLines: the END marker carries the number of the tip
\* (from 1) instead of its index
CopingLines_end_from_one(strategies) ==
    Flatten([n \in 1..Len(strategies) |->
        <<Line("coping_strategies", "COPING_TIP_START", n - 1, NoRecord, <<>>),
          Line("coping_strategies", "prompt", n - 1, NoRecord, <<>>),
          Line("coping_strategies", "COPING_TIP_CONTENT", n - 1, NoRecord, <<>>),
          Line("coping_strategies", "item", n - 1, strategies[n], <<"name">>)>>
        \o (IF "instructions" \in strategies[n].keys
            THEN <<Line("coping_strategies", "instructions", n - 1,
                        strategies[n], <<"instructions">>)>>
            ELSE <<>>)
        \o <<Line("coping_strategies", "COPING_TIP_END", n, NoRecord, <<>>)>>])

\* format_resources_for_display, "Coping strategies": for i, strategy in
\* enumerate(resources['coping_strategies'])
CopingLines(strategies) ==
    Flatten([n \in 1..Len(strategies) |->
        <<Line("coping_strategies", "COPING_TIP_START", n - 1, NoRecord, <<>>),
          Line("coping_strategies", "prompt", n - 1, NoRecord, <<>>),
          Line("coping_strategies", "COPING_TIP_CONTENT", n - 1, NoRecord, <<>>),
          Line("coping_strategies", "item", n - 1, strategies[n], <<"name">>)>>
        \o (IF "instructions" \in strategies[n].keys
            THEN <<Line("coping_strategies", "instructions", n - 1,
                        strategies[n], <<"instructions">>)>>
            ELSE <<>>)
        \o <<Line("coping_strategies", "COPING_TIP_END", n - 1, NoRecord, <<>>)>>])

\* format_resources_for_display: error is the exception the call raises
\* ("None" when it returns) and output is the list joined into the
\* returned string ("" is the empty list).  r['contact'] of the crisis
\* section raises KeyError on a record without contact; the other sections
\* test 'contact' in r first.
format_resources_for_display(resource_dict) ==
    LET has(key) == key \in DOMAIN resource_dict
        crisis ==
            IF has("crisis")
            THEN <<Line("crisis", "header", 0, NoRecord, <<>>)>>
                 \o [n \in 1..Min(2, Len(resource_dict["crisis"])) |->
                        Line("crisis", "item", n - 1, resource_dict["crisis"][n],
                             <<"name", "contact">>)]
            ELSE <<>>
        coping ==
            IF has("coping_strategies")
            THEN CopingLines(resource_dict["coping_strategies"]) ELSE <<>>
        mental ==
            IF has("mental_health")
            THEN <<Line("mental_health", "header", 0, NoRecord, <<>>)>>
                 \o [n \in 1..Min(2, Len(resource_dict["mental_health"])) |->
                        LET r == resource_dict["mental_health"][n]
                        IN  Line("mental_health", "item", n - 1, r,
                                 <<"name">>
                                 \o (IF "cost" \in r.keys THEN <<"cost">> ELSE <<>>)
                                 \o (IF "contact" \in r.keys
                                     THEN <<"contact">> ELSE <<>>))]
            ELSE <<>>
        financial ==
            IF has("financial_help")
            THEN <<Line("financial_help", "header", 0, NoRecord, <<>>)>>
                 \o [n \in 1..Min(3, Len(resource_dict["financial_help"])) |->
                        LET r == resource_dict["financial_help"][n]
                        IN  Line("financial_help", "item", n - 1, r,
                                 <<"name">>
                                 \o (IF "contact" \in r.keys THEN <<"contact">>
                                     ELSE IF "website" \in r.keys
                                     THEN <<"website">> ELSE <<>>))]
            ELSE <<>>
        summary ==
            IF has("message")
            THEN <<Line("message", "message", 0, NoRecord,
                        <<resource_dict["message"]>>)>>
            ELSE <<>>
    IN  IF DOMAIN resource_dict = {}
        THEN [error |-> "None", output |-> <<>>]
        ELSE IF /\ has("crisis")
                /\ \E n \in 1..Min(2, Len(resource_dict["crisis"])) :
                       "contact" \notin resource_dict["crisis"][n].keys
        THEN [error |-> "KeyError", output |-> <<>>]
        ELSE [error |-> "None",
              output |-> crisis \o coping \o mental \o financial \o summary]

\* no format_resources_for_display() call has returned yet
NoDisplay == [error |-> "NoCall", output |-> <<>>]

----------------------------------------------------------------------------
(* Inputs: the texts handed to detect()                                    *)

w_not == <<"n","o","t">>
w_cannot == <<"c","a","n","n","o","t">>
w_sadly == <<"s","a","d","l","y">>
w_congratulations == <<"c","o","n","g","r","a","t","u","l","a","t","i","o","n","s">>
w_I == <<"I">>
w_very == <<"v","e","r","y">>
w_extreme == <<"e","x","t","r","e","m","e">>
w_cant == <<"c","a","n","t">>
w_kill == <<"k","i","l","l">>
w_myself == <<"m","y","s","e","l","f">>

\* negation: a negation word, a word ending in one, a keyword, a word that
\* starts with the keyword, and fillers that move the 20-character window
NegationWords == {w_not, w_cannot, kw_sad, w_sadly, w_congratulations}
\* categories: keywords of mental, mental+physical, physical and financial
CategoryWords == {kw_sad, kw_pain, kw_ill, kw_debt, kw_rent}
\* scoring: keywords, intensity modifiers and the words of a weighted phrase
IntensityWords == {kw_pain, w_very, w_extreme, w_cant, kw_afford}
\* crisis: a crisis keyword, the words of a crisis phrase, negation, filler
CrisisWords == {w_not, kw_suicide, w_kill, w_myself, w_congratulations, kw_sad}

Vocabularies == {NegationWords, CategoryWords, IntensityWords, CrisisWords}

WordSeqs(V, n) == UNION {[1..k -> V] : k \in 0..n}

\* the example messages of test_pattern_recognition and of the
\* specification, a message with seven keyword matches and a message with
\* four keyword matches in each of two categories
t_not_depressed == <<"I","'","m"," ","n","o","t"," ","d","e","p","r","e","s","s","e","d",","," ","j","u","s","t"," ","t","i","r","e","d">>
t_really_anxious == <<"I","'","m"," ","r","e","a","l","l","y"," ","r","e","a","l","l","y"," ","a","n","x","i","o","u","s"," ","a","b","o","u","t"," ","e","v","e","r","y","t","h","i","n","g">>
t_anxious == <<"I","'","m"," ","a","n","x","i","o","u","s"," ","a","b","o","u","t"," ","e","v","e","r","y","t","h","i","n","g">>
t_want_to_die == <<"I"," ","w","a","n","t"," ","t","o"," ","d","i","e",","," ","c","a","n","'","t"," ","g","o"," ","o","n"," ","a","n","y","m","o","r","e">>
t_many_keywords == <<"s","a","d"," ","p","a","i","n"," ","i","l","l"," ","d","e","b","t"," ","r","e","n","t"," ","a","f","f","o","r","d">>
t_two_full_categories == <<"a","n","x","i","o","u","s"," ","d","e","p","r","e","s","s","e","d"," ","s","a","d"," ","p","a","i","n"," ","t","i","r","e","d"," ","s","i","c","k"," ","i","l","l"," ","d","e","b","t">>

ExampleTexts ==
    {t_not_depressed, t_really_anxious, t_anxious, t_want_to_die, t_many_keywords,
     t_two_full_categories}

\* every text of at most MaxWords words, separated by single blanks, over
\* one of the vocabularies, and the example messages
Texts ==
    UNION {{JoinWords(ws) : ws \in WordSeqs(V, MaxWords)} : V \in Vocabularies}
        \cup ExampleTexts

\* the messages of a session of several calls: the empty message, no match,
\* stress levels 3, 4 and 5, and a crisis (level 10)
SessionTexts ==
    {<<>>, w_I, kw_sad, JoinWords(<<kw_debt, kw_rent>>), kw_pain, kw_suicide}

\* history_size arguments of the constructor: the default, and one small
\* enough for the deque to evict
HistorySizes == {10, 3}

----------------------------------------------------------------------------
(* The detector as a state machine *)

\* no detect() call has returned yet
NoResult == [stress_detected |-> FALSE, stress_level |-> 0, is_crisis |-> FALSE,
             category |-> "NoCall", keywords_found |-> <<>>, phrases_found |-> <<>>,
             confidence |-> 0, intensity_multiplier |-> 10, trend |-> "NoCall"]

\* the conversation sessions that post to /chat
Sessions == {"s1", "s2"}

\* LLMManager.__init__ before any message: no financial detect() and no
\* get_resources() call has returned, no /chat request has arrived
ManagerInit ==
    /\ financial_data = NoFinancialData
    /\ financial_locals = NoFinancialLocals
    /\ resources = NoResources
    /\ session = "NoRequest"
    /\ sent = [s \in Sessions |-> <<>>]
    /\ display = NoDisplay
    /\ reply = [status |-> 0, crisis_header |-> <<>>, text |-> "NoRequest",
                resource_text |-> <<>>]
    /\ conversation_history = <<>>

\* __init__: both deques empty
Init ==
    /\ history_size \in HistorySizes
    /\ stress_history = <<>>
    /\ message = <<>>
    /\ result = NoResult
    /\ locals = NoLocals
    /\ calls = 0
    /\ catalog = LoadedCatalog
    /\ ManagerInit

\* one call detect(msg) on the detector
Detect(msg) ==
    /\ calls < MaxCalls
    /\ \E d \in {detect(msg, stress_history)} :
           /\ result' = d.result
           /\ locals' = d.locals
           /\ stress_history' =
                IF d.update
                THEN _update_history(stress_history, d.result, history_size)
                ELSE stress_history
    /\ message' = msg
    /\ calls' = calls + 1
    /\ UNCHANGED history_size

\* a session: any sequence of at most MaxCalls calls
SessionCall ==
    /\ \E msg \in SessionTexts : Detect(msg)
    /\ UNCHANGED manager_vars

Next == SessionCall

Spec == Init /\ [][Next]_vars

\* the history a session has after the given messages
RECURSIVE HistoryAfter(_, _)
HistoryAfter(msgs, maxlen) ==
    IF Len(msgs) = 0 THEN <<>>
    ELSE LET before == HistoryAfter(SubSeq(msgs, 1, Len(msgs) - 1), maxlen)
             d == detect(msgs[Len(msgs)], before)
         IN  IF d.update THEN _update_history(before, d.result, maxlen) ELSE before

\* a fresh detector, and one whose last three calls saw levels 8, 5 and 3
SeedSessions == {<<>>, <<JoinWords(<<kw_pain, kw_debt>>), kw_pain, kw_sad>>}

InitText ==
    /\ history_size = 10
    /\ \E msgs \in SeedSessions :
          /\ stress_history = HistoryAfter(msgs, history_size)
          /\ calls = Len(msgs)
    /\ message = <<>>
    /\ result = NoResult
    /\ locals = NoLocals
    /\ catalog = LoadedCatalog
    /\ ManagerInit

\* the one call whose text ranges over Texts
ClassifyText ==
    /\ result = NoResult
    /\ \E msg \in Texts : Detect(msg)
    /\ UNCHANGED manager_vars

NextText == ClassifyText

SpecText == InitText /\ [][NextText]_vars

----------------------------------------------------------------------------
(* The /chat handler of the web application.  web_app.py builds one        *)
(* LLMManager at import time, and LLMManager.__init__ builds one           *)
(* SimpleStressDetector() with the default history_size; every /chat       *)
(* request, whatever conversation it belongs to, goes through them.        *)

\* str.strip() on a text whose only whitespace is the blank
RECURSIVE Strip(_)
Strip(text) ==
    IF text = <<>> THEN <<>>
    ELSE IF Head(text) = " " THEN Strip(Tail(text))
    ELSE IF text[Len(text)] = " " THEN Strip(SubSeq(text, 1, Len(text) - 1))
    ELSE text

\* the stress_data get_completion builds when only the financial detector
\* found something; the keys it leaves out read as None through .get()
FinancialOnlyStress(fin_data) ==
    [stress_detected |-> TRUE, stress_level |-> fin_data.stress_level,
     is_crisis |-> FALSE, category |-> "None", keywords_found |-> <<>>,
     phrases_found |-> <<>>]

\* Step 3 of get_completion: the resources for the two results
CompletionResources(stress_data, fin_data, cat) ==
    IF stress_data.stress_detected /\ stress_data.stress_level > 3
    THEN get_resources(stress_data, fin_data, cat)
    ELSE IF fin_data.has_financial_stress
    THEN get_resources(FinancialOnlyStress(fin_data), fin_data, cat)
    ELSE NoResources

\* get_crisis_header: the header line and the first two hotlines;
\* resource['contact'] raises KeyError on a record without contact
get_crisis_header(cat) ==
    LET crisis_hotlines == Prefix(cat["crisis_hotlines"], 2)
    IN  IF \E n \in 1..Len(crisis_hotlines) : "contact" \notin crisis_hotlines[n].keys
        THEN [error |-> "KeyError", output |-> <<>>]
        ELSE [error |-> "None",
              output |-> <<Line("crisis", "header", 0, NoRecord, <<>>)>>
                         \o [n \in 1..Len(crisis_hotlines) |->
                                Line("crisis", "item", n - 1, crisis_hotlines[n],
                                     <<"name", "contact">>)]]

\* the outcomes of the request to the language-model backend: a response,
\* or requests.RequestException (connection error, timeout, HTTP error)
LLMOutcomes == {"response", "RequestException"}

\* "if resources:" on what Step 3 left: None and {} are false
Truthy(resource_dict) ==
    "NoCall" \notin DOMAIN resource_dict /\ DOMAIN resource_dict # {}

\* a text with neither crisis header nor resources
PlainReply(status, text) ==
    [status |-> status, crisis_header |-> <<>>, text |-> text,
     resource_text |-> <<>>]

\* get_completion from the request on: error is the exception that leaves
\* the method ("None" when it returns), value the returned bot_reply (text
\* "None" when it returns None): the text of the model, the formatted
\* resources appended to it and, for a crisis, the crisis header put in
\* front of it
Completion(stress_data, resource_dict, cat, llm) ==
    LET formatted == IF Truthy(resource_dict)
                     THEN format_resources_for_display(resource_dict)
                     ELSE [error |-> "None", output |-> <<>>]
        header == IF stress_data.is_crisis
                  THEN get_crisis_header(cat)
                  ELSE [error |-> "None", output |-> <<>>]
    IN  IF llm = "RequestException"
        THEN [error |-> "None", value |-> PlainReply(200, "None")]
        ELSE IF formatted.error # "None"
        THEN [error |-> formatted.error, value |-> PlainReply(200, "None")]
        ELSE IF header.error # "None"
        THEN [error |-> header.error, value |-> PlainReply(200, "None")]
        ELSE [error |-> "None",
              value |-> [status |-> 200, crisis_header |-> header.output,
                         text |-> "bot_reply",
                         resource_text |-> formatted.output]]

\* chat() after get_completion: the fallback text for a None, the error
\* response for an exception
Response(completion) ==
    IF completion.error # "None" THEN PlainReply(500, completion.error)
    ELSE IF completion.value.text = "None" THEN PlainReply(200, "fallback")
    ELSE completion.value

\* write_longterm_memory: the entry appended to conversation_history, of
\* which the last 50 are kept
WriteMemory(history, user_input, bot_response, stress_data) ==
    LET appended ==
            Append(history,
                   [user_input |-> user_input, bot_response |-> bot_response,
                    stress_detected |-> stress_data.stress_level > 0,
                    stress_level |-> stress_data.stress_level,
                    stress_category |-> stress_data.category,
                    is_crisis |-> stress_data.is_crisis])
    IN  IF Len(appended) > 50
        THEN SubSeq(appended, Len(appended) - 49, Len(appended))
        ELSE appended

\* LLMManager.get_completion: the stress detector (which appends to its
\* history), the financial detector and the resource manager, all on the
\* same prompt, then the request to the backend with outcome llm, the
\* reply built from it and the memory entry; reply is what chat() answers
GetCompletion(user_prompt, llm) ==
    /\ Detect(user_prompt)
    /\ \E f \in {financial_detect(user_prompt)} :
         \E r \in {CompletionResources(result', f.result, catalog)} :
           \E c \in {Completion(result', r, catalog, llm)} :
             /\ financial_data' = f.result
             /\ financial_locals' = f.locals
             /\ resources' = r
             /\ display' = IF llm = "response" /\ Truthy(r)
                           THEN format_resources_for_display(r) ELSE display
             /\ reply' = Response(c)
             /\ conversation_history' =
                    IF c.error = "None" /\ c.value.text # "None"
                    THEN WriteMemory(conversation_history, user_prompt,
                                     c.value, result')
                    ELSE conversation_history
    /\ UNCHANGED catalog

\* the messages a /chat request can carry: blank, a message only the
\* financial detector reacts to, a message of stress level 3 and a crisis
w_blank == <<" ">>
ChatTexts == {w_blank, fk.emi, kw_sad, kw_suicide}

\* chat(): one POST /chat of conversation session s
Chat(s, msg, llm) ==
    /\ session' = s
    /\ \E user_message \in {Strip(msg)} :
           IF user_message = <<>>
           THEN /\ reply' = PlainReply(400, "Empty message")
                /\ UNCHANGED <<detector_vars, financial_data, financial_locals,
                               catalog, resources, sent, display,
                               conversation_history>>
           ELSE /\ calls < MaxRequests
                /\ GetCompletion(user_message, llm)
                /\ sent' = [sent EXCEPT ![s] = Append(@, user_message)]

NextChat ==
    \E s \in Sessions, msg \in ChatTexts, llm \in LLMOutcomes : Chat(s, msg, llm)

\* the application after start-up
InitChat ==
    /\ history_size = 10
    /\ stress_history = <<>>
    /\ message = <<>>
    /\ result = NoResult
    /\ locals = NoLocals
    /\ calls = 0
    /\ catalog = LoadedCatalog
    /\ ManagerInit

SpecChat == InitChat /\ [][NextChat]_vars

----------------------------------------------------------------------------
(* The financial sub-classifier as a state machine: one call of            *)
(* FinancialStressDetector.detect on a text                                *)

\* the words of the texts that are no lexicon entry by themselves
fw ==
    [notice |-> <<"n","o","t","i","c","e">>,
     filing |-> <<"f","i","l","i","n","g">>,
     losing |-> <<"l","o","s","i","n","g">>,
     home |-> <<"h","o","m","e">>,
     this |-> <<"t","h","i","s">>,
     week |-> <<"w","e","e","k">>,
     month |-> <<"m","o","n","t","h">>,
     soon |-> <<"s","o","o","n">>,
     urgent |-> <<"u","r","g","e","n","t">>,
     desperate |-> <<"d","e","s","p","e","r","a","t","e">>,
     hopeless |-> <<"h","o","p","e","l","e","s","s">>,
     shutoff |-> <<"s","h","u","t","o","f","f">>,
     premium |-> <<"p","r","e","m","i","u","m">>,
     past |-> <<"p","a","s","t">>,
     due |-> <<"d","u","e">>,
     utility |-> <<"u","t","i","l","i","t","y">>]

\* housing and bankruptcy: entries listed in two tables, entries that
\* contain another entry, and an entry whose two tables disagree on weight
HousingWords == {fk.eviction, fw.notice, fk.bankruptcy, fw.filing, fw.losing, fw.home}
\* levels: weights 5, 8 and 9, an urgency word and two desperation words
LevelWords == {fk.emi, fk.fired, fk.defaulting, fw.urgent, fw.desperate, fw.hopeless}
\* urgency: the three kinds of time phrases, with two keywords
TimeWords == {fw.this, fw.week, fw.month, fw.soon, fk.fired, fk.homeless}
\* bills: two-word entries, a word that contains an entry, 'utility'
BillsWords == {fw.utility, fw.shutoff, fw.premium, fw.past, fw.due, kw_rent}

FinancialVocabularies == {HousingWords, LevelWords, TimeWords, BillsWords}

\* the messages of test_financial_stress_detection and of the specification
t_drowning_in_debt == <<"I","'","m"," ","d","r","o","w","n","i","n","g"," ","i","n"," ","d","e","b","t"," ","a","n","d"," ","c","a","n","'","t"," ","p","a","y"," ","m","y"," ","b","i","l","l","s">>
t_eviction_notice == <<"J","u","s","t"," ","g","o","t"," ","e","v","i","c","t","i","o","n"," ","n","o","t","i","c","e",","," ","l","o","s","i","n","g"," ","m","y"," ","h","o","m","e">>
t_no_financial_worries == <<"H","a","v","i","n","g"," ","a"," ","g","r","e","a","t"," ","d","a","y",","," ","n","o"," ","f","i","n","a","n","c","i","a","l"," ","w","o","r","r","i","e","s">>
t_bankruptcy_only_option == <<"B","a","n","k","r","u","p","t","c","y"," ","i","s"," ","m","y"," ","o","n","l","y"," ","o","p","t","i","o","n"," ","n","o","w">>

FinancialExampleTexts ==
    {t_drowning_in_debt, t_eviction_notice, t_no_financial_worries,
     t_bankruptcy_only_option}

\* every text of at most MaxWords words over one of the vocabularies, and
\* the example messages
FinancialTexts ==
    UNION {{JoinWords(ws) : ws \in WordSeqs(V, MaxWords)} : V \in FinancialVocabularies}
        \cup FinancialExampleTexts

\* one call detect(text) on the financial detector
FinancialDetect(text) ==
    /\ message' = text
    /\ \E f \in {financial_detect(text)} :
           /\ financial_data' = f.result
           /\ financial_locals' = f.locals
    /\ UNCHANGED <<result, locals, stress_history, history_size, calls,
                   catalog, resources, session, sent, display, reply,
                   conversation_history>>

\* the one call whose text ranges over FinancialTexts
ClassifyFinancial ==
    /\ financial_data = NoFinancialData
    /\ \E text \in FinancialTexts : FinancialDetect(text)

NextFinancial == ClassifyFinancial

SpecFinancial == InitChat /\ [][NextFinancial]_vars

----------------------------------------------------------------------------
(* The resource selector as a state machine: one call of                   *)
(* ResourceManager.get_resources on the results of the two detectors       *)

\* messages for the stress detector: those of a session, and messages of
\* category mental (levels 3, 7), physical and both, with and without the
\* keywords the coping strategies are chosen by
ResourceStressTexts ==
    SessionTexts \cup
        {t_anxious, kw_tired, JoinWords(<<kw_sad, kw_pain>>),
         JoinWords(<<kw_sad, kw_pain, kw_debt, kw_rent>>),
         JoinWords(<<kw_depressed, kw_pain>>),
         JoinWords(<<kw_tired, kw_ill>>)}

\* messages for the financial detector: none, the example messages, and
\* messages of each urgency with categories debt, income_loss and
\* housing_crisis
ResourceFinancialTexts ==
    FinancialExampleTexts \cup
        {<<>>, fk.emi, fk.homeless,
         JoinWords(<<fk.emi, fw.soon>>),
         JoinWords(<<fk.fired, fw.urgent>>),
         JoinWords(<<fk.fired, fw.this, fw.month>>)}

\* the databases __init__ may load: the files missing, every record
\* complete, and records with the name only, with the contact only and
\* with cost and website only
Catalogs ==
    {Catalog(0, {}), LoadedCatalog}
        \cup {Catalog(MaxCatalog, keys) :
                  keys \in {{}, {"contact"}, {"cost", "website"}}}

\* ResourceManager.__init__ with the databases present, or with the files
\* missing
InitResources ==
    /\ history_size = 10
    /\ stress_history = <<>>
    /\ message = <<>>
    /\ result = NoResult
    /\ locals = NoLocals
    /\ calls = 0
    /\ catalog \in Catalogs
    /\ ManagerInit

\* get_resources(stress_data, financial_data) on the dicts the two
\* detectors return for a pair of messages
SelectResources(stress_text, financial_text) ==
    /\ Detect(stress_text)
    /\ \E f \in {financial_detect(financial_text)} :
           /\ financial_data' = f.result
           /\ financial_locals' = f.locals
           /\ resources' = get_resources(result', f.result, catalog)
    /\ UNCHANGED <<catalog, session, sent, display, reply, conversation_history>>

\* format_resources_for_display(resources) on the dict get_resources
\* returned
FormatResources ==
    /\ "NoCall" \notin DOMAIN resources
    /\ display = NoDisplay
    /\ display' = format_resources_for_display(resources)
    /\ UNCHANGED <<detector_vars, financial_data, financial_locals, catalog,
                   resources, session, sent, reply, conversation_history>>

\* the one get_resources call, whose arguments range over the pairs of
\* messages, and then the one call that formats what it returned
NextResources ==
    \/ /\ resources = NoResources
       /\ financial_data = NoFinancialData
       /\ \E stress_text \in ResourceStressTexts,
             financial_text \in ResourceFinancialTexts :
                 SelectResources(stress_text, financial_text)
    \/ FormatResources

SpecResources == InitResources /\ [][NextResources]_vars

----------------------------------------------------------------------------
(* Properties *)

\* a detect() call has returned
Called == result.category # "NoCall"

\* the entries of the session history
HistoryEntries == {stress_history[i] : i \in 1..Len(stress_history)}

\* the latest call went through STEP 5 to STEP 9 and returned a scored result
Scored == Called /\ result.stress_detected /\ ~ result.is_crisis

SeqRange(s) == {s[i] : i \in 1..Len(s)}

\* C1: every returned result and every history entry that is flagged as a
\* crisis has stress_level 10, category 'crisis' and confidence 1.0
C1_CrisisIsMaximal ==
    \A r \in {result} \cup HistoryEntries :
        r.is_crisis =>
            r.stress_level = 10 /\ r.category = "crisis" /\ r.confidence = 100

\* a crisis result that later calls have pushed down the history, while the
\* latest call returned a crisis again
C1_Witness ==
    /\ result.is_crisis
    /\ Len(stress_history) >= 3
    /\ stress_history[1].is_crisis
    /\ ~ stress_history[2].is_crisis

\* the tokens of the negation window that ends at offset pos
WindowTokens(text, pos) == Split(Slice(text, Max(0, pos - NegationWindow), pos))
NegationInWindow(text, pos) ==
    \E n \in 1..Len(NEGATION_WORDS) : NEGATION_WORDS[n] \in WindowTokens(text, pos)

\* an occurrence of a crisis phrase, or of a crisis keyword as a whole word,
\* whose own negation window holds no negation word
UnnegatedCrisisOccurrence(text) ==
    \/ \E n \in 1..Len(STRESS_PHRASES["crisis"]) :
          \E i \in Offsets(text, STRESS_PHRASES["crisis"][n].phrase) :
              ~ NegationInWindow(text, i)
    \/ \E n \in 1..Len(STRESS_KEYWORDS["crisis"]) :
          \E i \in WordOffsets(text, STRESS_KEYWORDS["crisis"][n]) :
              ~ NegationInWindow(text, i)

\* C2: a text with an occurrence of a crisis phrase or keyword that has no
\* negation word in the window before that occurrence is classified as a
\* crisis with stress_level 10
C2_UnnegatedCrisisWins ==
    (Called /\ UnnegatedCrisisOccurrence(LowerText(message)))
        => (result.is_crisis /\ result.stress_level = 10)

\* C3: every result has 0 <= stress_level <= 10 and 0.0 <= confidence <= 1.0
C3_Ranges ==
    Called => (result.stress_level \in 0..10 /\ result.confidence \in 0..100)

\* a scored result whose level and confidence both come out of a clamp:
\* base x multiplier + boost exceeds 10 and the evidence count x 0.15 exceeds 1
C3_Witness ==
    /\ Scored
    /\ (locals.base_stress * locals.intensity) \div 10 + locals.combination_boost > 10
    /\ result.stress_level = 10
    /\ (Len(result.keywords_found) + 2 * Len(result.phrases_found)) * 15 > 100
    /\ result.confidence = 100

\* word is a whole blank-separated token of text, starting at offset j
WholeTokenAt(text, word, j) ==
    /\ OccursAt(text, word, j)
    /\ (j = 0 \/ text[j] = " ")
    /\ (j + Len(word) = Len(text) \/ text[j + Len(word) + 1] = " ")

\* a negation word is a whole token of the text and lies within the
\* 20 characters before offset pos
NegationTokenBefore(text, pos) ==
    \E n \in 1..Len(NEGATION_WORDS) :
        \E j \in Max(0, pos - NegationWindow)..(pos - Len(NEGATION_WORDS[n])) :
            WholeTokenAt(text, NEGATION_WORDS[n], j)

\* the entry is matched in the text, and each of its matches is negated
KeywordNegated(text, keyword) ==
    /\ WordOffsets(text, keyword) # {}
    /\ \A i \in WordOffsets(text, keyword) : NegationTokenBefore(text, i)
PhraseNegated(text, phrase) ==
    /\ Offsets(text, phrase) # {}
    /\ \A i \in Offsets(text, phrase) : NegationTokenBefore(text, i)

\* some keyword or phrase of mental/financial/physical is matched in the
\* text, and every matched one is negated
AllMatchesNegated(text) ==
    /\ \E c \in {"mental", "financial", "physical"} :
          \/ \E k \in 1..Len(STRESS_KEYWORDS[c]) :
                WordOffsets(text, STRESS_KEYWORDS[c][k]) # {}
          \/ \E k \in 1..Len(_find_stress_phrases(text)[c]) : TRUE
    /\ \A c \in {"mental", "financial", "physical"} :
          /\ \A k \in 1..Len(STRESS_KEYWORDS[c]) :
                WordOffsets(text, STRESS_KEYWORDS[c][k]) # {}
                    => KeywordNegated(text, STRESS_KEYWORDS[c][k])
          /\ \A k \in 1..Len(_find_stress_phrases(text)[c]) :
                PhraseNegated(text, _find_stress_phrases(text)[c][k].phrase)

\* C4: a keyword or phrase whose matches all have a negation word as a whole
\* token within the 20 characters before them is not among the surviving
\* matches (which feed the base score and the category scores) nor in
\* keywords_found / phrases_found; when every match of the text is negated
\* the result is stress_detected = false
C4_NegatedMatchDiscarded ==
    (Called /\ ~ result.is_crisis) =>
        LET text == LowerText(message)
        IN  /\ \A c \in {"mental", "financial", "physical"} :
                  \A k \in 1..Len(STRESS_KEYWORDS[c]) :
                      KeywordNegated(text, STRESS_KEYWORDS[c][k]) =>
                          STRESS_KEYWORDS[c][k] \notin
                              SeqRange(locals.filtered_keywords[c])
            /\ \A c \in {"mental", "financial"} :
                  \A k \in 1..Len(STRESS_PHRASES[c]) :
                      PhraseNegated(text, STRESS_PHRASES[c][k].phrase) =>
                          /\ STRESS_PHRASES[c][k] \notin
                                SeqRange(locals.filtered_phrases[c])
                          /\ STRESS_PHRASES[c][k].phrase \notin
                                SeqRange(result.phrases_found)
            /\ AllMatchesNegated(text) => ~ result.stress_detected

\* the number of surviving keyword matches and the sum of the surviving
\* phrase weights of the latest call
SurvivingKeywordCount ==
    Len(locals.filtered_keywords["mental"])
      + Len(locals.filtered_keywords["financial"])
      + Len(locals.filtered_keywords["physical"])
PhraseWeights(c) ==
    SumSeq([j \in 1..Len(locals.filtered_phrases[c]) |->
                locals.filtered_phrases[c][j].weight])
SurvivingPhraseWeight ==
    PhraseWeights("mental") + PhraseWeights("financial")
      + PhraseWeights("physical") + PhraseWeights("crisis")

\* b of C5: 0 when nothing survives, else 2k + W floored to 3 and capped at 10
ClaimedBase ==
    LET raw == 2 * SurvivingKeywordCount + SurvivingPhraseWeight
    IN  IF raw = 0 THEN 0 ELSE Min(10, Max(3, raw))

ActiveCategories ==
    {c \in {"mental", "financial", "physical"} :
        Len(locals.filtered_keywords[c]) > 0 \/ Len(locals.filtered_phrases[c]) > 0}

\* C6: the category part of the combination boost is 2 for three active
\* categories, 1 for exactly two and 0 for one; the rest of the boost is the
\* same-category part (categories with four or more surviving keywords)
C6_CategoryBoost ==
    Scored =>
        locals.combination_boost
            - Cardinality({c \in {"mental", "financial", "physical"} :
                              Len(locals.filtered_keywords[c]) >= 4})
          = (IF Cardinality(ActiveCategories) >= 3 THEN 2
             ELSE IF Cardinality(ActiveCategories) = 2 THEN 1 ELSE 0)

\* the boosts of the intensity modifiers that occur in the text
PresentBoosts(text) ==
    {INTENSITY_MODIFIERS[i].boost : i \in
        {j \in 1..Len(INTENSITY_MODIFIERS) :
            Contains(text, INTENSITY_MODIFIERS[j].modifier)}}
SetMax(S) == CHOOSE x \in S : \A y \in S : y <= x

\* C7: intensity_multiplier is the maximum of 1.0 and the multipliers of the
\* modifiers present, so at least 1.0; with the surviving matches fixed, the
\* level is not below the level any lower multiplier of the table (or 1.0)
\* gives; and "really really anxious" is rated at least as high as "anxious"
C7_IntensityIsMax ==
    /\ Called => result.intensity_multiplier >= 10
    /\ Scored =>
          /\ result.intensity_multiplier
                = SetMax({10} \cup PresentBoosts(LowerText(message)))
          /\ \A m \in {10} \cup {INTENSITY_MODIFIERS[i].boost :
                                    i \in 1..Len(INTENSITY_MODIFIERS)} :
                m <= result.intensity_multiplier =>
                    FinalStress(locals.base_stress, m, locals.combination_boost)
                        <= result.stress_level
    /\ (Called /\ message = t_really_anxious) =>
          /\ result.intensity_multiplier > 10
          /\ result.stress_level >= detect(t_anxious, <<>>).result.stress_level

\* a text with two different modifiers whose level is above the level of
\* the same matches without any modifier
C7_Witness ==
    /\ Scored
    /\ Cardinality(PresentBoosts(LowerText(message))) >= 2
    /\ result.stress_level
          > FinalStress(locals.base_stress, 10, locals.combination_boost)

\* score(c) of C8
CategoryScore(c) ==
    Len(locals.filtered_keywords[c]) + 3 * Len(locals.filtered_phrases[c])

\* C8: category is 'both' iff mental and financial both score >= 2, else the
\* highest-scoring category with ties resolved mental, financial, physical
C8_Category ==
    Scored =>
        result.category =
            IF CategoryScore("mental") >= 2 /\ CategoryScore("financial") >= 2
            THEN "both"
            ELSE IF /\ CategoryScore("mental") >= CategoryScore("financial")
                    /\ CategoryScore("mental") >= CategoryScore("physical")
                 THEN "mental"
            ELSE IF CategoryScore("financial") >= CategoryScore("physical")
                 THEN "financial"
            ELSE "physical"

\* financial wins a tie with physical
C8_Witness ==
    /\ Scored
    /\ result.category = "financial"
    /\ CategoryScore("financial") = CategoryScore("physical")
    /\ CategoryScore("mental") < CategoryScore("financial")

\* the trend C9 states for a history of at least three entries
ClaimedTrend(history) ==
    LET latest == history[Len(history)].stress_level
        oldest == history[Len(history) - 2].stress_level
    IN  IF latest < oldest - 1 THEN "improving"
        ELSE IF latest > oldest + 1 THEN "worsening"
        ELSE "stable"

\* C9: a call that returns a scored result while the history holds at least
\* three entries reports the trend of the latest entry against the
\* third-from-last one, with a tolerance of 1
C9_Trend ==
    [][(calls' = calls + 1 /\ result'.stress_detected /\ ~ result'.is_crisis
            /\ Len(stress_history) >= 3)
        => result'.trend = ClaimedTrend(stress_history)]_vars

\* a scored result reported as improving after levels that dropped by 2 or
\* more over the three entries before it
C9_Witness ==
    /\ Scored
    /\ result.trend = "improving"
    /\ history_size = 10
    /\ Len(stress_history) >= 4
    /\ stress_history[Len(stress_history)] = result
    /\ stress_history[Len(stress_history) - 1].stress_level + 2
          <= stress_history[Len(stress_history) - 3].stress_level

\* C10: a call made while the history holds fewer than three entries
\* returns trend 'unknown', whatever the kind of result
C10_UnknownBelowThree ==
    [][(calls' = calls + 1 /\ Len(stress_history) < 3)
        => result'.trend = "unknown"]_vars

\* the last n entries of a sequence, in order
MostRecent(s, n) == SubSeq(s, Max(1, Len(s) - n + 1), Len(s))

\* C11: the history never holds more than history_size entries; a call with
\* a non-empty message leaves exactly the most recently appended results in
\* call order (the earlier history followed by the returned result, cut to
\* its last history_size entries, so the oldest entry is the one evicted);
\* a crisis result is appended like any other and has trend 'unknown'
C11_BoundedHistory ==
    [][/\ Len(stress_history') <= history_size
       /\ (calls' = calls + 1 /\ message' # <<>>)
             => stress_history' =
                  MostRecent(Append(stress_history, result'), history_size)
       /\ (calls' = calls + 1 /\ result'.is_crisis)
             => /\ result'.trend = "unknown"
                /\ stress_history'[Len(stress_history')] = result']_vars

\* a detector of capacity 3 after five appends, the last one a crisis: the
\* entry in the middle was computed from three entries that are gone (a
\* worsening trend needs three entries before it)
C11_Witness ==
    /\ history_size = 3
    /\ calls = 5
    /\ Len(stress_history) = 3
    /\ stress_history[2].trend = "worsening"
    /\ result.is_crisis
    /\ result.trend = "unknown"
    /\ stress_history[3] = result

\* C12: every call appends exactly one entry, the result it returns, to
\* the history (the history before the call followed by the result, within
\* the capacity), whatever the text: empty, no match, stress or crisis
C12_EveryCallAppends ==
    [][(calls' = calls + 1)
         => stress_history' =
              MostRecent(Append(stress_history, result'), history_size)]_vars

\* C13: the result a /chat request of one session gets is the result of
\* classifying its message against the history of that session's own
\* earlier messages: no request of another session is read through the
\* history or has appended to it
C13_HistoryPerSession ==
    [][(calls' = calls + 1)
         => result' =
              detect(message', HistoryAfter(sent[session'], history_size)).result]_vars

\* a financial detect() call has returned
FinancialCalled == financial_data.severity # "NoCall"

\* C14: classifying "Just got eviction notice, losing my home" gives
\* severity 'critical', urgency 'immediate' and a categories set that
\* contains 'housing_crisis'
C14_EvictionNotice ==
    (FinancialCalled /\ message = t_eviction_notice)
        => /\ financial_data.severity = "critical"
           /\ financial_data.urgency = "immediate"
           /\ "housing_crisis" \in financial_data.categories

\* the weights of the lexicon entries, of any of the five tables, that
\* occur in the latest text
FinancialTables ==
    {DEBT_KEYWORDS, INCOME_KEYWORDS, BILLS_KEYWORDS, BANKRUPTCY_INDICATORS,
     HOUSING_CRISIS}
MatchedEntries ==
    UNION {{table[i] : i \in {j \in 1..Len(table) :
                                 Contains(LowerText(message), table[j].keyword)}} :
           table \in FinancialTables}
HighestWeight == SetMax({0} \cup {e.severity : e \in MatchedEntries})

\* the stress level C15 states
ClaimedFinancialLevel ==
    LET urgent == IF financial_data.urgency = "immediate" THEN 2 ELSE 0
        desperate == IF financial_data.desperation_level = "high" THEN 1 ELSE 0
    IN  Min(10, Min(10, HighestWeight + urgent) + desperate)

\* the ladder C15 states, as the least level of each label
LadderFloor ==
    [critical |-> 9, severe |-> 7, high |-> 5, moderate |-> 3, low |-> 1, none |-> 0]
LadderOrder == <<"none", "low", "moderate", "high", "severe", "critical">>

CategoryTables ==
    {[category |-> "debt", table |-> DEBT_KEYWORDS],
     [category |-> "income_loss", table |-> INCOME_KEYWORDS],
     [category |-> "bills", table |-> BILLS_KEYWORDS],
     [category |-> "bankruptcy", table |-> BANKRUPTCY_INDICATORS],
     [category |-> "housing_crisis", table |-> HOUSING_CRISIS]}

\* C16: for every lexicon entry that occurs in the text, every category
\* whose table lists the entry is in the returned categories ('bankruptcy'
\* gives 'bankruptcy', 'eviction' or 'losing home' gives 'housing_crisis')
C16_EveryListingCategory ==
    FinancialCalled
        => \A ct \in CategoryTables :
             \A i \in 1..Len(ct.table) :
                Contains(LowerText(message), ct.table[i].keyword)
                    => ct.category \in financial_data.categories

\* the 1-based position of the first occurrence of a key in a list
FirstIndex(list, key) ==
    CHOOSE i \in 1..Len(list) :
        list[i] = key /\ \A j \in 1..(i - 1) : list[j] # key

\* C17: recommended_resources holds no key twice, holds exactly the keys
\* that were inserted, in the order of their first insertion; it holds
\* 'emergency_assistance' whenever the final level is 9 or more and
\* 'housing_assistance' whenever 'housing_crisis' is among the categories
C17_RecommendedResources ==
    FinancialCalled
        => LET recommended == financial_data.recommended_resources
               inserted == financial_locals.resources
           IN  /\ \A i, j \in 1..Len(recommended) :
                     i # j => recommended[i] # recommended[j]
               /\ SeqRange(recommended) = SeqRange(inserted)
               /\ \A i, j \in 1..Len(recommended) :
                     i < j => FirstIndex(inserted, recommended[i])
                                < FirstIndex(inserted, recommended[j])
               /\ financial_data.stress_level >= 9
                     => "emergency_assistance" \in SeqRange(recommended)
               /\ "housing_crisis" \in financial_data.categories
                     => "housing_assistance" \in SeqRange(recommended)

\* a critical housing crisis with a lost income: 'emergency_assistance' was
\* inserted three times, the last time after the keys that follow it
C17_Witness ==
    /\ FinancialCalled
    /\ financial_data.stress_level >= 9
    /\ "housing_crisis" \in financial_data.categories
    /\ financial_locals.resources =
          <<"emergency_assistance", "emergency_assistance", "housing_assistance",
            "employment_resources", "emergency_assistance">>
    /\ financial_data.recommended_resources =
          <<"emergency_assistance", "housing_assistance", "employment_resources">>

\* the entry occurs in the text as whole words: no letter right before its
\* first character and none right after its last
AsWholeWords(text, entry) ==
    \E j \in 0..(Len(text) - Len(entry)) :
        /\ OccursAt(text, entry, j)
        /\ (j = 0 \/ ~ IsWordChar(text[j]))
        /\ (j + Len(entry) = Len(text) \/ ~ IsWordChar(text[j + Len(entry) + 1]))

\* C18: a lexicon entry counts as matched only when it occurs in the text
\* as whole words, never when it only occurs inside a longer word; stated
\* for the matches the financial sub-classifier reports
C18_WholeWordMatches ==
    FinancialCalled
        => \A i \in 1..Len(financial_data.specific_issues) :
              AsWholeWords(LowerText(message),
                           financial_data.specific_issues[i].keyword)

\* a get_resources() call has returned
ResourcesCalled == "NoCall" \notin DOMAIN resources

\* C19: for a crisis result the selection holds the keys crisis,
\* crisis_online and message and no other (no coping_strategies,
\* mental_health or financial_help), at most 3 hotlines and at most 2
\* online crisis resources, all of them crisis-tier records, whatever the
\* financial result
C19_CrisisOnly ==
    (ResourcesCalled /\ result.is_crisis)
        => /\ DOMAIN resources = {"crisis", "crisis_online", "message"}
           /\ Len(resources["crisis"]) <= 3
           /\ Len(resources["crisis_online"]) <= 2
           /\ \A r \in SeqRange(resources["crisis"]) : r.list = "crisis_hotlines"
           /\ \A r \in SeqRange(resources["crisis_online"]) :
                 r.list = "crisis_online_resources"

\* a crisis together with a critical financial result, with databases that
\* hold more hotlines and online resources than are returned
C19_Witness ==
    /\ ResourcesCalled
    /\ result.is_crisis
    /\ financial_data.has_financial_stress
    /\ financial_data.severity = "critical"
    /\ Len(catalog["crisis_hotlines"]) > 3
    /\ Len(resources["crisis"]) = 3
    /\ Len(resources["crisis_online"]) = 2

\* C20: for a stress-detected result that is no crisis, of category mental
\* or both, together with a financial result that has financial stress, the
\* selection holds both a mental_health and a financial_help entry
C20_UnionOfBoth ==
    (/\ ResourcesCalled
     /\ result.stress_detected
     /\ ~ result.is_crisis
     /\ result.category \in {"mental", "both"}
     /\ financial_data.has_financial_stress)
        => {"mental_health", "financial_help"} \subseteq DOMAIN resources

\* the coping strategies the priority order over the detected keywords
\* gives: anxiety or panic, then depression, then sleep, then quick
\* techniques, and breathing techniques when nothing was chosen
ClaimedCoping(keywords, cat) ==
    LET overwhelmed == <<"o","v","e","r","w","h","e","l","m","e","d">>
        exhausted == <<"e","x","h","a","u","s","t","e","d">>
        chosen ==
            IF \E word \in {kw_anxious, rw.panic, overwhelmed} : InList(word, keywords)
            THEN Prefix(cat["breathing_techniques"], 1)
                     \o Prefix(cat["grounding_techniques"], 1)
            ELSE IF \E word \in {kw_depressed, kw_sad, rw.hopeless} : InList(word, keywords)
            THEN Prefix(cat["physical_techniques"], 1)
                     \o Prefix(cat["cognitive_techniques"], 1)
            ELSE IF \E word \in {rw.sleep, kw_tired, exhausted} : InList(word, keywords)
            THEN Prefix(cat["sleep_techniques"], 2)
            ELSE Prefix(cat["quick_techniques"], 2)
    IN  IF chosen = <<>> THEN Prefix(cat["breathing_techniques"], 2) ELSE chosen

\* C21: in a selection for a stress-detected result that is no crisis,
\* coping_strategies is present exactly when stress_level >= 4, holds at
\* most 2 strategies, and these are the ones the priority order over the
\* detected keywords gives (anxious/panic/overwhelmed, then
\* depressed/sad/hopeless, then sleep/tired/exhausted, then quick
\* techniques; breathing techniques when the chosen lists are empty)
C21_CopingStrategies ==
    (ResourcesCalled /\ result.stress_detected /\ ~ result.is_crisis)
        => /\ ("coping_strategies" \in DOMAIN resources) <=> (result.stress_level >= 4)
           /\ "coping_strategies" \in DOMAIN resources
                  => /\ Len(resources["coping_strategies"]) <= 2
                     /\ resources["coping_strategies"]
                            = ClaimedCoping(result.keywords_found, catalog)

\* C28: for a stress-detected result that is no crisis, when the financial
\* result has housing_crisis (income_loss) among its categories and the
\* databases hold housing_assistance (employment_resources) records, the
\* financial_help list of the selection includes such a record
C28_CategoryRecords ==
    (ResourcesCalled /\ result.stress_detected /\ ~ result.is_crisis)
        => /\ ("housing_crisis" \in financial_data.categories
                   /\ catalog["housing_assistance"] # <<>>)
                  => /\ "financial_help" \in DOMAIN resources
                     /\ \E r \in SeqRange(resources["financial_help"]) :
                            r.list = "housing_assistance"
           /\ ("income_loss" \in financial_data.categories
                   /\ catalog["employment_resources"] # <<>>)
                  => /\ "financial_help" \in DOMAIN resources
                     /\ \E r \in SeqRange(resources["financial_help"]) :
                            r.list = "employment_resources"

\* C29: a financial result with has_financial_stress = false is the empty
\* result: stress_level 0, severity none, no categories and no recommended
\* resources, whatever urgency or desperation words the text holds
C29_NoStressIsEmpty ==
    (FinancialCalled /\ ~ financial_data.has_financial_stress)
        => /\ financial_data.stress_level = 0
           /\ financial_data.severity = "none"
           /\ financial_data.categories = {}
           /\ financial_data.recommended_resources = <<>>

\* C25: the trend of a scored result counts the result itself: it is the
\* trend of the history after the result was appended (the result is the
\* latest entry, compared with the entry two positions before it), so the
\* third call of a session no longer reports 'unknown'
C25_TrendCountsResult ==
    [][(calls' = calls + 1 /\ result'.stress_detected /\ ~ result'.is_crisis)
        => result'.trend = (IF Len(stress_history') >= 3
                            THEN ClaimedTrend(stress_history')
                            ELSE "unknown")]_vars

\* a result with stress has level 3 or more; a result without stress is
\* level 0, confidence 0, no crisis and holds no keyword and no phrase
DetectedConsistent(entry) ==
    /\ entry.stress_detected => entry.stress_level >= 3
    /\ ~ entry.stress_detected
          => /\ entry.stress_level = 0
             /\ entry.confidence = 0
             /\ ~ entry.is_crisis
             /\ entry.keywords_found = <<>>
             /\ entry.phrases_found = <<>>

\* C30: in every result of detect and in every history entry,
\* stress_detected = true implies stress_level >= 3, and stress_detected =
\* false implies stress_level = 0, confidence = 0.0, is_crisis = false and
\* empty keywords_found and phrases_found
C30_DetectedConsistent ==
    /\ Called => DetectedConsistent(result)
    /\ \A entry \in HistoryEntries : DetectedConsistent(entry)

\* a single surviving keyword, worth 2 points, reported at level 3 and
\* appended to a history that also holds entries of earlier calls
C30_Witness ==
    /\ Scored
    /\ Len(result.keywords_found) = 1
    /\ result.phrases_found = <<>>
    /\ result.intensity_multiplier = 10
    /\ result.stress_level = 3
    /\ Len(stress_history) > 1
    /\ stress_history[Len(stress_history)] = result

\* C26: a keyword or phrase that is matched in the text and discarded by
\* the negation filter has a match with a negation word that is a complete
\* token of the text within the 20 characters before it; a longer word
\* that merely ends in a negation word ('cannot') discards nothing
C26_OnlyWholeNegationTokens ==
    (Called /\ ~ result.is_crisis) =>
        LET text == LowerText(message)
        IN  /\ \A c \in {"mental", "financial", "physical"} :
                  \A k \in 1..Len(STRESS_KEYWORDS[c]) :
                      (/\ WordOffsets(text, STRESS_KEYWORDS[c][k]) # {}
                       /\ STRESS_KEYWORDS[c][k] \notin
                              SeqRange(locals.filtered_keywords[c]))
                          => \E i \in WordOffsets(text, STRESS_KEYWORDS[c][k]) :
                                 NegationTokenBefore(text, i)
            /\ \A c \in {"mental", "financial"} :
                  \A k \in 1..Len(STRESS_PHRASES[c]) :
                      (/\ Offsets(text, STRESS_PHRASES[c][k].phrase) # {}
                       /\ STRESS_PHRASES[c][k] \notin
                              SeqRange(locals.filtered_phrases[c]))
                          => \E i \in Offsets(text, STRESS_PHRASES[c][k].phrase) :
                                 NegationTokenBefore(text, i)

\* the part of the combination boost given for the number of active
\* categories, as _check_combination_patterns counts them
CategoryPart ==
    LET active_categories ==
            Cardinality({c \in DOMAIN locals.filtered_keywords :
                             Len(locals.filtered_keywords[c]) > 0})
          + Cardinality({c \in DOMAIN locals.filtered_phrases :
                             Len(locals.filtered_phrases[c]) > 0})
    IN  IF active_categories >= 3 THEN 2
        ELSE IF active_categories = 2 THEN 1 ELSE 0

\* C27: the same-category part of the combination boost is at most +1 in
\* total, however many categories have four or more surviving keywords, so
\* the combination boost never exceeds 3
C27_SameCategoryOnce ==
    Scored => /\ locals.combination_boost - CategoryPart <= 1
              /\ locals.combination_boost <= 3

\* a format_resources_for_display() call has returned a string
Displayed == display.error = "None"

\* the sections of the formatted text, in the order they are rendered
SectionOrder ==
    <<"crisis", "coping_strategies", "mental_health", "financial_help", "message">>
SectionRank(section) == CHOOSE n \in 1..Len(SectionOrder) : SectionOrder[n] = section

\* the output lines of a kind, in order, and where the line of a kind with
\* an index stands
LinesOfKind(kind) ==
    LET IsKind(line) == line.kind = kind
    IN  SelectSeq(display.output, IsKind)
LinePosition(kind, index) ==
    CHOOSE p \in 1..Len(display.output) :
        display.output[p].kind = kind /\ display.output[p].index = index

\* the coping strategies of the formatted selection
FormattedStrategies ==
    IF "coping_strategies" \in DOMAIN resources
    THEN resources["coping_strategies"] ELSE <<>>

\* C22: the formatted text has its sections in the order crisis, coping
\* strategies, mental-health resources, financial resources, message; the
\* strategy with zero-based index i stands between [COPING_TIP_START:i],
\* [COPING_TIP_CONTENT:i] (in this order, before it) and [COPING_TIP_END:i]
\* (after it), the indices run from 0 without a gap, and there are as many
\* START, as many CONTENT and as many END markers as strategies
C22_FormatOrderAndMarkers ==
    Displayed =>
        LET out == display.output
            n == Len(FormattedStrategies)
        IN  /\ \A p, q \in 1..Len(out) :
                  p < q => SectionRank(out[p].section) <= SectionRank(out[q].section)
            /\ \A kind \in {"COPING_TIP_START", "COPING_TIP_CONTENT", "COPING_TIP_END"} :
                  /\ Len(LinesOfKind(kind)) = n
                  /\ \A k \in 1..n : LinesOfKind(kind)[k].index = k - 1
            /\ \A k \in 1..n :
                  \E p \in 1..Len(out) :
                      /\ out[p].kind = "item"
                      /\ out[p].section = "coping_strategies"
                      /\ out[p].record = FormattedStrategies[k]
                      /\ LinePosition("COPING_TIP_START", k - 1)
                             < LinePosition("COPING_TIP_CONTENT", k - 1)
                      /\ LinePosition("COPING_TIP_CONTENT", k - 1) < p
                      /\ p < LinePosition("COPING_TIP_END", k - 1)
                      /\ k < n => LinePosition("COPING_TIP_END", k - 1)
                                     < LinePosition("COPING_TIP_START", k)

\* a formatted selection with two coping strategies that have
\* instructions, followed by a resource section and the message
C22_Witness ==
    /\ Displayed
    /\ Len(FormattedStrategies) = 2
    /\ "instructions" \in FormattedStrategies[2].keys
    /\ Len(LinesOfKind("COPING_TIP_END")) = 2
    /\ \E p \in 1..Len(display.output) :
          /\ display.output[p].section = "financial_help"
          /\ LinePosition("COPING_TIP_END", 1) < p
    /\ display.output[Len(display.output)].section = "message"

\* C23: get_resources and format_resources_for_display never raise: for
\* every pair of results and every catalog of the data model (the empty
\* one, and records without contact, cost, website or instructions) they
\* return a selection and a string
C23_NoFailurePath ==
    /\ ResourcesCalled => DOMAIN resources \subseteq
           {"crisis", "crisis_online", "message", "coping_strategies",
            "mental_health", "financial_help"}
    /\ display.error \in {"NoCall", "None"}

\* C24: the reply to a message the classifier flags as crisis carries the
\* crisis resources header, whatever the outcome of the language-model
\* request
C24_CrisisHeaderAlways ==
    [][(calls' = calls + 1 /\ result'.is_crisis)
        => (/\ reply'.crisis_header # <<>>
            /\ reply'.crisis_header[1].section = "crisis"
            /\ reply'.crisis_header[1].kind = "header")]_vars

====
